---- MODULE Spec2Model ----
(***************************************************************************)
(* Model of src/watcher/watcher.py: the nginx log watcher (LogWatcher).    *)
(*                                                                         *)
(* Text is modelled as sequences of one-character strings, so that the     *)
(* regular expression of parse_log_line and the int()/float() conversions  *)
(* are computed character by character.  Python's None and other optional  *)
(* values are modelled as options: <<>> is None, <<x>> is the value x.     *)
(* A method that reads the clock (time.time()) or calls the webhook        *)
(* (requests.post) is modelled as the SET of its possible outcomes, one    *)
(* per clock reading and per answer of the webhook.                        *)
(***************************************************************************)
EXTENDS Integers, Sequences, FiniteSets, TLC

VARIABLES
    slack_webhook_url,  \* self.slack_webhook_url: "" when not configured
    maintenance_mode,   \* self.maintenance_mode
    last_seen_pool,     \* self.last_seen_pool: option of a pool text
    request_window,     \* self.request_window: deque(maxlen = window_size)
    last_alert_time,    \* self.last_alert_time: dict alert type -> clock reading
    out,                \* what the last call did: return value, log output, alerts
    fed,                \* observation: the records of the attributed lines fed so far
    skipped,            \* observation: the line fed last was not attributed
    gap,                \* observation: a skipped line came just before the last attributed one
    passed,             \* observation: per alert type, the readings of the last two
                        \* alerts that passed the gate
    config,             \* self.window_size and self.error_rate_threshold
    max_lines,          \* bound: the number of attributed lines a run may feed
    log_file,           \* the text of the file at self.log_file, None while it does not exist
    file_pos,           \* the read position of the file object of tail_log_file
    tail_pc,            \* where tail_log_file stands: "off", "wait", "opened" or "loop"
    pending,            \* the log writer: the part of a line it has still to write
    handed,             \* observation: the texts tail_log_file passed to process_log_line
    source              \* observation: the lines the writer began after the file was opened

tail_vars == <<log_file, file_pos, tail_pc, pending, handed, source>>

vars == <<slack_webhook_url, maintenance_mode, last_seen_pool, request_window,
          last_alert_time, out, fed, skipped, gap, passed, config, max_lines,
          tail_vars>>

-----------------------------------------------------------------------------
(* Configuration (environment variables read by __init__) and bounds.      *)

window_size == 3
alert_cooldown_sec == 2
error_rate_threshold == 50

MaxClock == 2 * alert_cooldown_sec + 1
MaxLines == window_size + 1

\* the readings time.time() may give; the wall clock is not monotonic
Clock == 0 .. MaxClock

WebhookUrl == "https://hooks.slack.example/services/T"

\* the answers of requests.post: status 200, another status, an exception
Responses == {"200", "500", "exception"}

AlertTypes == {"failover", "error_rate", "info"}

None == <<>>

Some(x) == <<x>>

-----------------------------------------------------------------------------
(* Text helpers.                                                           *)

Digits == <<"0", "1", "2", "3", "4", "5", "6", "7", "8", "9">>

IsDigit(c) == \E d \in 1 .. 10 : Digits[d] = c

DigitVal(c) == (CHOOSE d \in 1 .. 10 : Digits[d] = c) - 1

Letters == {"a", "b", "c", "d", "e", "f", "g", "h", "i", "j", "k", "l", "m",
            "n", "o", "p", "q", "r", "s", "t", "u", "v", "w", "x", "y", "z"}

\* \w of the regular expression, over the alphabet of the model
IsWord(c) == c \in Letters \/ IsDigit(c) \/ c = "_"

IsSpace(c) == c \in {" ", "\t", "\n", "\r"}

time_key == <<"t", "i", "m", "e">>

remote_addr_key == <<"r", "e", "m", "o", "t", "e", "_", "a", "d", "d", "r">>

method_key == <<"m", "e", "t", "h", "o", "d">>

uri_key == <<"u", "r", "i">>

status_key == <<"s", "t", "a", "t", "u", "s">>

request_time_key == <<"r", "e", "q", "u", "e", "s", "t", "_", "t", "i", "m", "e">>

upstream_key == <<"u", "p", "s", "t", "r", "e", "a", "m", "_">>

upstream_addr_key == upstream_key \o <<"a", "d", "d", "r">>

upstream_status_key == upstream_key \o status_key

upstream_response_time_key ==
    upstream_key \o <<"r", "e", "s", "p", "o", "n", "s", "e", "_", "t", "i", "m", "e">>

pool_key == <<"p", "o", "o", "l">>

release_key == <<"r", "e", "l", "e", "a", "s", "e">>

unknown == <<"u", "n", "k", "n", "o", "w", "n">>

\* str.strip() restricted to the blank of the model's alphabet
RECURSIVE LStrip(_)
LStrip(s) == IF s # <<>> /\ IsSpace(s[1]) THEN LStrip(Tail(s)) ELSE s

RECURSIVE RStrip(_)
RStrip(s) ==
    IF s # <<>> /\ IsSpace(s[Len(s)]) THEN RStrip(SubSeq(s, 1, Len(s) - 1)) ELSE s

Strip(s) == RStrip(LStrip(s))

\* a digit string with single underscores between digits (Python's grammar)
DigitsOk(s) ==
    /\ s # <<>>
    /\ \A i \in 1 .. Len(s) : IsDigit(s[i]) \/ s[i] = "_"
    /\ IsDigit(s[1]) /\ IsDigit(s[Len(s)])
    /\ \A i \in 1 .. Len(s) - 1 : ~(s[i] = "_" /\ s[i + 1] = "_")

RECURSIVE DigitsVal(_, _)
DigitsVal(s, acc) ==
    IF s = <<>> THEN acc
    ELSE IF s[1] = "_" THEN DigitsVal(Tail(s), acc)
    ELSE DigitsVal(Tail(s), 10 * acc + DigitVal(s[1]))

HasSign(s) == s # <<>> /\ s[1] \in {"+", "-"}

Unsigned(s) == IF HasSign(s) THEN Tail(s) ELSE s

\* int(text): the value, or None where Python raises ValueError
py_int(text) ==
    LET s == Strip(text)
        body == Unsigned(s)
    IN  IF ~DigitsOk(body) THEN None
        ELSE IF HasSign(s) /\ s[1] = "-" THEN Some(0 - DigitsVal(body, 0))
        ELSE Some(DigitsVal(body, 0))

\* the position of the decimal point, 0 when there is none
DotAt(s) == IF \E i \in 1 .. Len(s) : s[i] = "."
            THEN CHOOSE i \in 1 .. Len(s) : s[i] = "." /\ \A j \in 1 .. i - 1 : s[j] # "."
            ELSE 0

\* the first three decimals of a digit string, as thousandths
Millis(frac) ==
    LET d(i) == IF i <= Len(frac) THEN DigitVal(frac[i]) ELSE 0
    IN  100 * d(1) + 10 * d(2) + d(3)

\* float(text) for decimal notation (digits, at most one point, a sign), in
\* thousandths; None where Python raises ValueError.  Exponents, "inf" and
\* "nan" are outside the alphabet of the lines of the model.
py_float(text) ==
    LET s == Strip(text)
        body == Unsigned(s)
        dot == DotAt(body)
        whole == IF dot = 0 THEN body ELSE SubSeq(body, 1, dot - 1)
        frac == IF dot = 0 THEN <<>> ELSE SubSeq(body, dot + 1, Len(body))
        ok == /\ whole # <<>> \/ frac # <<>>
              /\ whole = <<>> \/ DigitsOk(whole)
              /\ frac = <<>> \/ DigitsOk(frac)
        digitsOnly(t) == SelectSeq(t, IsDigit)
        mag == 1000 * DigitsVal(whole, 0) + Millis(digitsOnly(frac))
    IN  IF ~ok THEN None
        ELSE IF HasSign(s) /\ s[1] = "-" THEN Some(0 - mag)
        ELSE Some(mag)

-----------------------------------------------------------------------------
(* parse_log_line.                                                         *)

\* the last index of the run of \w characters that starts at i
RECURSIVE WordEnd(_, _)
WordEnd(line, i) ==
    IF i + 1 <= Len(line) /\ IsWord(line[i + 1]) THEN WordEnd(line, i + 1) ELSE i

\* the last index of the run of [^|] characters that starts at i
RECURSIVE ValueEnd(_, _)
ValueEnd(line, i) ==
    IF i + 1 <= Len(line) /\ line[i + 1] # "|" THEN ValueEnd(line, i + 1) ELSE i

\* re.findall(r'(\w+):([^|]+)', line) scanning from position i: the
\* non-overlapping matches, left to right, as <<key, value>> pairs
RECURSIVE findall(_, _)
findall(line, i) ==
    IF i > Len(line) THEN <<>>
    ELSE IF ~IsWord(line[i]) THEN findall(line, i + 1)
    ELSE LET j == WordEnd(line, i)
         IN  IF /\ j + 2 <= Len(line)
                /\ line[j + 1] = ":"
                /\ line[j + 2] # "|"
             THEN LET k == ValueEnd(line, j + 2)
                  IN  <<  <<SubSeq(line, i, j), SubSeq(line, j + 2, k)>>  >>
                          \o findall(line, k + 1)
             ELSE findall(line, i + 1)

\* dict(matches).get(key, default): the last pair with that key wins
RECURSIVE dict_get(_, _, _)
dict_get(matches, key, default) ==
    IF matches = <<>> THEN default
    ELSE LET m == matches[Len(matches)]
         IN  IF m[1] = key THEN Some(m[2])
             ELSE dict_get(SubSeq(matches, 1, Len(matches) - 1), key, default)

\* the text of a field that is copied as it is
text_field(matches, key, default) ==
    LET v == dict_get(matches, key, None)
    IN  IF v = None THEN default ELSE v[1]

\* int(log_data.get('status', 0))
int_field(matches, key) ==
    LET v == dict_get(matches, key, None)
    IN  IF v = None THEN Some(0) ELSE py_int(v[1])

\* float(log_data.get('request_time', 0))
float_field(matches, key) ==
    LET v == dict_get(matches, key, None)
    IN  IF v = None THEN Some(0) ELSE py_float(v[1])

\* 0 where the conversion raises ValueError
or_zero(number) == IF number = None THEN Some(0) ELSE number

\* parse_log_line with numeric fields that fall back to 0 instead of raising
parse_log_line_coercing(line) ==
    LET log_data == findall(line, 1)
        status == or_zero(int_field(log_data, status_key))
        request_time == or_zero(float_field(log_data, request_time_key))
    IN  Some([timestamp |-> text_field(log_data, time_key, <<>>),
              remote_addr |-> text_field(log_data, remote_addr_key, <<>>),
              method |-> text_field(log_data, method_key, <<>>),
              uri |-> text_field(log_data, uri_key, <<>>),
              status |-> status[1],
              request_time |-> request_time[1],
              upstream_addr |-> text_field(log_data, upstream_addr_key, <<>>),
              upstream_status |-> text_field(log_data, upstream_status_key, <<>>),
              upstream_response_time |->
                  text_field(log_data, upstream_response_time_key, <<>>),
              pool |-> text_field(log_data, pool_key, unknown),
              release |-> text_field(log_data, release_key, unknown)])

\* parse_log_line(line): the record, or None when a conversion raises
parse_log_line(line) ==
    LET log_data == findall(line, 1)
        status == int_field(log_data, status_key)
        request_time == float_field(log_data, request_time_key)
    IN  IF status = None \/ request_time = None THEN None
        ELSE Some([timestamp |-> text_field(log_data, time_key, <<>>),
                   remote_addr |-> text_field(log_data, remote_addr_key, <<>>),
                   method |-> text_field(log_data, method_key, <<>>),
                   uri |-> text_field(log_data, uri_key, <<>>),
                   status |-> status[1],
                   request_time |-> request_time[1],
                   upstream_addr |-> text_field(log_data, upstream_addr_key, <<>>),
                   upstream_status |-> text_field(log_data, upstream_status_key, <<>>),
                   upstream_response_time |->
                       text_field(log_data, upstream_response_time_key, <<>>),
                   pool |-> text_field(log_data, pool_key, unknown),
                   release |-> text_field(log_data, release_key, unknown)])

-----------------------------------------------------------------------------
(* The lines fed to the watcher.                                           *)

Field(key, value) == key \o <<":">> \o value

Bar == <<"|">>

pool_a == <<"a">>

pool_b == <<"b">>

LineOkA == Field(status_key, <<"2", "0", "0">>) \o Bar \o Field(pool_key, pool_a)

LineErrA == Field(status_key, <<"5", "0", "3">>) \o Bar \o Field(pool_key, pool_a)

LineOkB ==
    Field(status_key, <<"2", "0", "0">>) \o Bar
        \o Field(request_time_key, <<"0", ".", "5">>) \o Bar
        \o Field(pool_key, pool_b)

\* no pool token
LineNoPool == Field(status_key, <<"2", "0", "0">>)

\* the pool token holds the sentinel itself
LineUnknownPool == Field(status_key, <<"2", "0", "0">>) \o Bar \o Field(pool_key, unknown)

\* a status that is not a number, on a line of pool a
LineBadStatus == Field(status_key, <<"x">>) \o Bar \o Field(pool_key, pool_a)

\* a request_time that is not a number, on a line of pool b
LineBadTime ==
    Field(status_key, <<"2", "0", "0">>) \o Bar
        \o Field(request_time_key, <<"x">>) \o Bar
        \o Field(pool_key, pool_b)

\* a line without any key:value token
LineGarbage == <<"x">>

Lines == {LineOkA, LineErrA, LineOkB, LineNoPool, LineUnknownPool,
          LineBadStatus, LineBadTime, LineGarbage}

\* a line of pool a that names the pool before the status
LineErrPoolFirst == Field(pool_key, pool_a) \o Bar \o Field(status_key, <<"5", "0", "3">>)

\* the lines the log writer appends to the file
TailLines == {LineOkA, LineErrPoolFirst}

\* where the writer may end a write inside a line: before its last character
CutPoints(line) == {Len(line) - 1}

\* the two parts of a line written in two writes
Fragments(line) ==
    UNION {{SubSeq(line, 1, k), SubSeq(line, k + 1, Len(line))} : k \in CutPoints(line)}

\* parse_log_line on the texts of the model, computed once
ParseTable ==
    [line \in Lines \cup TailLines \cup UNION {Fragments(l) : l \in TailLines}
        |-> parse_log_line(line)]

\* the call self.parse_log_line(line)
call_parse_log_line(line) ==
    IF line \in DOMAIN ParseTable THEN ParseTable[line] ELSE parse_log_line(line)

-----------------------------------------------------------------------------
(* The watcher object and its methods.                                     *)

\* the fields of self that the methods read and write
Self ==
    [slack_webhook_url |-> slack_webhook_url,
     maintenance_mode |-> maintenance_mode,
     last_seen_pool |-> last_seen_pool,
     request_window |-> request_window,
     last_alert_time |-> last_alert_time,
     window_size |-> config.window_size,
     error_rate_threshold |-> config.error_rate_threshold]

\* Python truthiness of an optional text: neither None nor ''
Truthy(opt) == opt # None /\ opt[1] # <<>>

\* the 5xx test with the upper end included
Is5xx_inclusive(req) == 500 <= req.status /\ req.status <= 600

Is5xx(req) == 500 <= req.status /\ req.status < 600

RECURSIVE error_count(_)
error_count(window) ==
    IF window = <<>> THEN 0
    ELSE (IF Is5xx(window[1]) THEN 1 ELSE 0) + error_count(Tail(window))

\* calculate_error_rate: the percentage (error_count / len) * 100 as the
\* exact fraction num / den.  The float that Python computes is this fraction
\* up to the rounding of the division and of the product; rate_above decides
\* the comparison of that float with the threshold.
calculate_error_rate(self) ==
    IF self.request_window = <<>> THEN [num |-> 0, den |-> 1]
    ELSE [num |-> error_count(self.request_window) * 100,
          den |-> Len(self.request_window)]

\* self.last_alert_time.get(alert_type, 0)
ledger_get(ledger, alert_type) ==
    IF alert_type \in DOMAIN ledger THEN ledger[alert_type] ELSE 0

\* self.last_alert_time[alert_type] = now
ledger_set(ledger, alert_type, now) ==
    [t \in DOMAIN ledger \cup {alert_type} |->
        IF t = alert_type THEN now ELSE ledger[t]]

\* can_send_alert that lets the alert through without recording the reading
can_send_alert_no_record(self, alert_type) ==
    { LET last_time == ledger_get(self.last_alert_time, alert_type)
      IN  IF now - last_time < alert_cooldown_sec
          THEN [self |-> self, ret |-> FALSE, now |-> now]
          ELSE [self |-> self, ret |-> TRUE, now |-> now]
      : now \in Clock }

\* the latest reading recorded for any alert type, 0 when there is none
latest_of_all(ledger) ==
    IF DOMAIN ledger = {} THEN 0
    ELSE CHOOSE m \in {ledger[t] : t \in DOMAIN ledger} :
             \A t \in DOMAIN ledger : ledger[t] <= m

\* can_send_alert with one cooldown clock shared by all alert types
can_send_alert_shared_clock(self, alert_type) ==
    { LET last_time == latest_of_all(self.last_alert_time)
      IN  IF now - last_time < alert_cooldown_sec
          THEN [self |-> self, ret |-> FALSE, now |-> now]
          ELSE [self |-> [self EXCEPT !.last_alert_time =
                              ledger_set(self.last_alert_time, alert_type, now)],
                ret |-> TRUE, now |-> now]
      : now \in Clock }

\* can_send_alert: one outcome per reading of time.time()
can_send_alert(self, alert_type) ==
    { LET last_time == ledger_get(self.last_alert_time, alert_type)
      IN  IF now - last_time < alert_cooldown_sec
          THEN [self |-> self, ret |-> FALSE, now |-> now]
          ELSE [self |-> [self EXCEPT !.last_alert_time =
                              ledger_set(self.last_alert_time, alert_type, now)],
                ret |-> TRUE, now |-> now]
      : now \in Clock }

\* what one call of send_slack_alert did
Trace(alert_type, message, now, result) ==
    [type |-> alert_type, message |-> message, now |-> now, result |-> result]

\* the outcomes in which requests.post was called
Posted == {"sent", "api_error", "exception"}

\* send_slack_alert that asks the cooldown gate before the maintenance flag
send_slack_alert_gate_first(self, message, alert_type) ==
    IF self.slack_webhook_url = ""
    THEN {[self |-> self, ret |-> FALSE,
           trace |-> Trace(alert_type, message, None, "no_webhook")]}
    ELSE UNION {
        IF ~gate.ret
        THEN {[self |-> gate.self, ret |-> FALSE,
               trace |-> Trace(alert_type, message, Some(gate.now), "cooldown")]}
        ELSE IF self.maintenance_mode
        THEN {[self |-> gate.self, ret |-> FALSE,
               trace |-> Trace(alert_type, message, None, "maintenance")]}
        ELSE {[self |-> gate.self, ret |-> (response = "200"),
               trace |-> Trace(alert_type, message, Some(gate.now),
                               CASE response = "200" -> "sent"
                                 [] response = "500" -> "api_error"
                                 [] OTHER -> "exception")]
              : response \in Responses}
        : gate \in can_send_alert(self, alert_type) }

\* send_slack_alert that records the alert in the ledger only when it was delivered
send_slack_alert_record_on_success(self, message, alert_type) ==
    IF self.slack_webhook_url = ""
    THEN {[self |-> self, ret |-> FALSE,
           trace |-> Trace(alert_type, message, None, "no_webhook")]}
    ELSE IF self.maintenance_mode
    THEN {[self |-> self, ret |-> FALSE,
           trace |-> Trace(alert_type, message, None, "maintenance")]}
    ELSE UNION {
        IF ~gate.ret
        THEN {[self |-> gate.self, ret |-> FALSE,
               trace |-> Trace(alert_type, message, Some(gate.now), "cooldown")]}
        ELSE {[self |-> IF response = "200" THEN gate.self ELSE self,
               ret |-> (response = "200"),
               trace |-> Trace(alert_type, message, Some(gate.now),
                               CASE response = "200" -> "sent"
                                 [] response = "500" -> "api_error"
                                 [] OTHER -> "exception")]
              : response \in Responses}
        : gate \in can_send_alert(self, alert_type) }

\* send_slack_alert: one outcome per clock reading and answer of the webhook
send_slack_alert(self, message, alert_type) ==
    IF self.slack_webhook_url = ""
    THEN {[self |-> self, ret |-> FALSE,
           trace |-> Trace(alert_type, message, None, "no_webhook")]}
    ELSE IF self.maintenance_mode
    THEN {[self |-> self, ret |-> FALSE,
           trace |-> Trace(alert_type, message, None, "maintenance")]}
    ELSE UNION {
        IF ~gate.ret
        THEN {[self |-> gate.self, ret |-> FALSE,
               trace |-> Trace(alert_type, message, Some(gate.now), "cooldown")]}
        ELSE {[self |-> gate.self, ret |-> (response = "200"),
               trace |-> Trace(alert_type, message, Some(gate.now),
                               CASE response = "200" -> "sent"
                                 [] response = "500" -> "api_error"
                                 [] OTHER -> "exception")]
              : response \in Responses}
        : gate \in can_send_alert(self, alert_type) }

\* detect_failover that remembers the new pool only when the alert was delivered
detect_failover_update_on_sent(self, current_pool) ==
    IF Truthy(self.last_seen_pool) /\ current_pool # self.last_seen_pool[1]
    THEN LET from == self.last_seen_pool[1]
         IN  {[self |-> IF sent.ret
                        THEN [sent.self EXCEPT !.last_seen_pool = Some(current_pool)]
                        ELSE sent.self,
               event |-> Some(<<from, current_pool>>),
               traces |-> <<sent.trace>>,
               rets |-> <<sent.ret>>]
              : sent \in send_slack_alert(self, <<"failover", from, current_pool>>,
                                          "failover")}
    ELSE {[self |-> [self EXCEPT !.last_seen_pool = Some(current_pool)],
           event |-> None,
           traces |-> <<>>,
           rets |-> <<>>]}

\* detect_failover: event is the "Failover detected" log entry
detect_failover(self, current_pool) ==
    IF Truthy(self.last_seen_pool) /\ current_pool # self.last_seen_pool[1]
    THEN LET from == self.last_seen_pool[1]
         IN  {[self |-> [sent.self EXCEPT !.last_seen_pool = Some(current_pool)],
               event |-> Some(<<from, current_pool>>),
               traces |-> <<sent.trace>>,
               rets |-> <<sent.ret>>]
              : sent \in send_slack_alert(self, <<"failover", from, current_pool>>,
                                          "failover")}
    ELSE {[self |-> [self EXCEPT !.last_seen_pool = Some(current_pool)],
           event |-> None,
           traces |-> <<>>,
           rets |-> <<>>]}

\* an append that never evicts
deque_append_unbounded(window, maxlen, x) == Append(window, x)

\* an append that evicts the newest record instead of the oldest
deque_append_evict_newest(window, maxlen, x) ==
    IF maxlen = 0 THEN window
    ELSE IF Len(window) >= maxlen THEN Append(SubSeq(window, 1, Len(window) - 1), x)
    ELSE Append(window, x)

\* deque.append on a deque of maximum length maxlen
deque_append(window, maxlen, x) ==
    IF maxlen = 0 THEN window
    ELSE IF Len(window) >= maxlen THEN Append(Tail(window), x)
    ELSE Append(window, x)

RECURSIVE Pow2(_)
Pow2(k) == IF k = 0 THEN 1 ELSE 2 * Pow2(k - 1)

\* the least a with e * 2^a >= n: e / n lies in [2^-a, 2^(1-a))
RECURSIVE BinaryShift(_, _)
BinaryShift(e, n) == IF e >= n THEN 0 ELSE 1 + BinaryShift(2 * e, n)

\* the t with 2^t <= x < 2^(t+1)
RECURSIVE BinaryLog(_)
BinaryLog(x) == IF x < 2 THEN 0 ELSE 1 + BinaryLog(x \div 2)

\* the remainder of e * 2^s divided by n and the last bit of the quotient,
\* by s steps of binary long division from the remainder r
RECURSIVE LongDivision(_, _, _, _)
LongDivision(r, bit, n, s) ==
    IF s = 0 THEN [rem |-> r, bit |-> bit]
    ELSE IF 2 * r >= n THEN LongDivision(2 * r - n, 1, n, s - 1)
    ELSE LongDivision(2 * r, 0, n, s - 1)

\* The double e / n has a mantissa of 53 bits: it is
\* (e * 2^s + r1) / (n * 2^s) with s = 52 + BinaryShift(e, n), r1 being the
\* numerator of the rounding error (round to nearest, ties to even).
division_error(e, n) ==
    LET d == LongDivision(e % n, (e \div n) % 2, n, 52 + BinaryShift(e, n))
    IN  IF 2 * d.rem < n THEN 0 - d.rem
        ELSE IF 2 * d.rem > n THEN n - d.rem
        ELSE IF d.bit = 0 THEN 0 - d.rem
        ELSE n - d.rem

\* (e / n) * 100 > threshold in doubles when 100 * e / n = threshold exactly:
\* the exact product is threshold + 100 * r1 / (n * 2^s), which rounds to a
\* double above threshold when the excess is more than half a unit in the
\* last place of threshold, 2^(BinaryLog(threshold) - 53)
product_rounds_above(e, n, threshold) ==
    /\ e > 0
    /\ threshold >= 1
    /\ 200 * division_error(e, n) > n * Pow2(BinaryShift(e, n) + BinaryLog(threshold))

\* current_error_rate > self.error_rate_threshold, for a threshold that is a
\* whole number: the rounding of the float decides only where the exact rate
\* equals the threshold
rate_above(rate, threshold) ==
    \/ rate.num > threshold * rate.den
    \/ /\ rate.num = threshold * rate.den
       /\ product_rounds_above(rate.num \div 100, rate.den, threshold)

\* len(self.request_window) >= self.window_size * 0.5
half_filled_strict(window, size) == 2 * Len(window) > size

half_filled(window, size) == 2 * Len(window) >= size

\* monitor_error_rate that leaves the window alone in maintenance mode
monitor_error_rate_skip_in_maintenance(self, log_entry) ==
    LET appended == [self EXCEPT !.request_window =
                         IF self.maintenance_mode THEN self.request_window
                         ELSE deque_append(self.request_window, self.window_size,
                                           log_entry)]
        current_error_rate == calculate_error_rate(appended)
    IN  IF /\ rate_above(current_error_rate, self.error_rate_threshold)
           /\ half_filled(appended.request_window, self.window_size)
        THEN {[self |-> sent.self, rate |-> Some(current_error_rate),
               traces |-> <<sent.trace>>,
               rets |-> <<sent.ret>>]
              : sent \in send_slack_alert(appended,
                            <<"error_rate", current_error_rate,
                              Len(appended.request_window),
                              error_count(appended.request_window)>>,
                            "error_rate")}
        ELSE {[self |-> appended, rate |-> Some(current_error_rate), traces |-> <<>>,
              rets |-> <<>>]}

\* monitor_error_rate
monitor_error_rate(self, log_entry) ==
    LET appended == [self EXCEPT !.request_window =
                         deque_append(self.request_window, self.window_size, log_entry)]
        current_error_rate == calculate_error_rate(appended)
    IN  IF /\ rate_above(current_error_rate, self.error_rate_threshold)
           /\ half_filled(appended.request_window, self.window_size)
        THEN {[self |-> sent.self, rate |-> Some(current_error_rate),
               traces |-> <<sent.trace>>,
               rets |-> <<sent.ret>>]
              : sent \in send_slack_alert(appended,
                            <<"error_rate", current_error_rate,
                              Len(appended.request_window),
                              error_count(appended.request_window)>>,
                            "error_rate")}
        ELSE {[self |-> appended, rate |-> Some(current_error_rate), traces |-> <<>>,
              rets |-> <<>>]}

\* process_log_line without the check of the 'unknown' pool
process_log_line_no_unknown_skip(self, line) ==
    LET log_entry == call_parse_log_line(line)
        skip == {[self |-> self, event |-> None, rate |-> None, traces |-> <<>>,
                 rets |-> <<>>]}
    IN  IF log_entry = None THEN skip
        ELSE UNION {
            {[self |-> m.self, event |-> d.event, rate |-> m.rate,
              traces |-> d.traces \o m.traces,
              rets |-> d.rets \o m.rets]
             : m \in monitor_error_rate(d.self, log_entry[1])}
            : d \in detect_failover(self, log_entry[1].pool) }

\* the outcomes in which requests.post was called and the delivery failed
Failed == {"api_error", "exception"}

\* process_log_line in which a failed delivery of the failover alert ends the
\* handling of the line
process_log_line_failure_propagates(self, line) ==
    LET log_entry == call_parse_log_line(line)
        skip == {[self |-> self, event |-> None, rate |-> None, traces |-> <<>>,
                 rets |-> <<>>]}
    IN  IF log_entry = None THEN skip
        ELSE IF log_entry[1].pool = unknown THEN skip
        ELSE UNION {
            IF d.traces # <<>> /\ d.traces[1].result \in Failed
            THEN {[self |-> [d.self EXCEPT !.last_seen_pool = self.last_seen_pool],
                   event |-> d.event, rate |-> None, traces |-> d.traces,
                   rets |-> d.rets]}
            ELSE {[self |-> m.self, event |-> d.event, rate |-> m.rate,
                   traces |-> d.traces \o m.traces,
                   rets |-> d.rets \o m.rets]
                  : m \in monitor_error_rate(d.self, log_entry[1])}
            : d \in detect_failover(self, log_entry[1].pool) }

\* process_log_line
process_log_line(self, line) ==
    LET log_entry == call_parse_log_line(line)
        skip == {[self |-> self, event |-> None, rate |-> None, traces |-> <<>>,
                 rets |-> <<>>]}
    IN  IF log_entry = None THEN skip
        ELSE IF log_entry[1].pool = unknown THEN skip
        ELSE UNION {
            {[self |-> m.self, event |-> d.event, rate |-> m.rate,
              traces |-> d.traces \o m.traces,
              rets |-> d.rets \o m.rets]
             : m \in monitor_error_rate(d.self, log_entry[1])}
            : d \in detect_failover(self, log_entry[1].pool) }

-----------------------------------------------------------------------------
(* State machine.                                                          *)

\* out when nothing was called yet; traces and rets list the calls of
\* send_slack_alert of the step and what each returned to its caller
NoCall ==
    [op |-> "none", line |-> <<>>, type |-> "", ret |-> None, now |-> None,
     event |-> None, rate |-> None, traces |-> <<>>,
     rets |-> <<>>]

\* WINDOW_SIZE and ERROR_RATE_THRESHOLD of the runs of the model
DefaultConfig ==
    [window_size |-> window_size, error_rate_threshold |-> error_rate_threshold]

\* tail_log_file is not running: the lines are fed by direct calls
TailOff ==
    /\ log_file = None
    /\ file_pos = 0
    /\ tail_pc = "off"
    /\ pending = <<>>
    /\ handed = <<>>
    /\ source = <<>>

\* __init__: the webhook and the maintenance flag come from the environment
Init ==
    /\ slack_webhook_url \in {"", WebhookUrl}
    /\ maintenance_mode \in BOOLEAN
    /\ last_seen_pool = None
    /\ request_window = <<>>
    /\ last_alert_time = <<>>
    /\ out = NoCall
    /\ fed = <<>>
    /\ skipped = FALSE
    /\ gap = FALSE
    /\ passed = <<>>
    /\ config = DefaultConfig
    /\ max_lines = MaxLines
    /\ TailOff

\* the fields of self after a call
SetSelf(self) ==
    /\ slack_webhook_url' = self.slack_webhook_url
    /\ maintenance_mode' = self.maintenance_mode
    /\ last_seen_pool' = self.last_seen_pool
    /\ request_window' = self.request_window
    /\ last_alert_time' = self.last_alert_time

\* a line is attributed when it parses and names a pool
Attributed(line) ==
    LET log_entry == call_parse_log_line(line)
    IN  log_entry # None /\ log_entry[1].pool # unknown

\* observation: an alert of this type passed the gate at this reading
NotePass(log, alert_type, now) ==
    [t \in DOMAIN log \cup {alert_type} |->
        IF t # alert_type THEN log[t]
        ELSE IF alert_type \in DOMAIN log
             THEN <<log[alert_type][Len(log[alert_type])], now>>
             ELSE <<now>>]

\* observation: the alerts among these calls that passed the gate
RECURSIVE NotePasses(_, _)
NotePasses(log, traces) ==
    IF traces = <<>> THEN log
    ELSE LET t == traces[1]
         IN  NotePasses(IF t.result \in Posted THEN NotePass(log, t.type, t.now[1])
                        ELSE log,
                        Tail(traces))

\* the call self.process_log_line(line) and what it is observed to do
CallProcessLogLine(line) ==
    /\ \E r \in process_log_line(Self, line) :
        /\ SetSelf(r.self)
        /\ out' = [NoCall EXCEPT !.op = "process_log_line", !.line = line,
                                 !.event = r.event, !.rate = r.rate,
                                 !.traces = r.traces,
                                 !.rets = r.rets]
        /\ passed' = NotePasses(passed, r.traces)
    /\ fed' = IF Attributed(line) THEN Append(fed, call_parse_log_line(line)[1]) ELSE fed
    /\ skipped' = ~Attributed(line)
    /\ gap' = IF Attributed(line) THEN skipped ELSE gap
    /\ UNCHANGED <<config, max_lines>>

\* one call of process_log_line(line)
ProcessLogLine(line) ==
    /\ Len(fed) < max_lines
    /\ CallProcessLogLine(line)
    /\ UNCHANGED tail_vars

\* one call of can_send_alert(alert_type)
CanSendAlert(alert_type) ==
    /\ \E r \in can_send_alert(Self, alert_type) :
        /\ SetSelf(r.self)
        /\ out' = [NoCall EXCEPT !.op = "can_send_alert", !.type = alert_type,
                                 !.ret = Some(r.ret), !.now = Some(r.now)]
        /\ passed' = IF r.ret THEN NotePass(passed, alert_type, r.now) ELSE passed
    /\ UNCHANGED <<fed, skipped, gap, config, max_lines, tail_vars>>

\* one call of send_slack_alert(message, alert_type)
SendSlackAlert(alert_type) ==
    /\ \E r \in send_slack_alert(Self, <<"test">>, alert_type) :
        /\ SetSelf(r.self)
        /\ out' = [NoCall EXCEPT !.op = "send_slack_alert", !.type = alert_type,
                                 !.ret = Some(r.ret), !.now = r.trace.now,
                                 !.traces = <<r.trace>>,
                                 !.rets = <<r.ret>>]
        /\ passed' = NotePasses(passed, <<r.trace>>)
    /\ UNCHANGED <<fed, skipped, gap, config, max_lines, tail_vars>>

\* the maintenance flag is a plain attribute: an operator switches it
SetMaintenanceMode(flag) ==
    /\ maintenance_mode # flag
    /\ maintenance_mode' = flag
    /\ out' = [NoCall EXCEPT !.op = "set_maintenance_mode"]
    /\ UNCHANGED <<slack_webhook_url, last_seen_pool, request_window,
                   last_alert_time, fed, skipped, gap, passed, config, max_lines,
                   tail_vars>>

\* one call of calculate_error_rate()
CalculateErrorRate ==
    /\ out.op = "none"
    /\ out' = [NoCall EXCEPT !.op = "calculate_error_rate",
                             !.rate = Some(calculate_error_rate(Self))]
    /\ UNCHANGED <<slack_webhook_url, maintenance_mode, last_seen_pool,
                   request_window, last_alert_time, fed, skipped, gap, passed,
                   config, max_lines, tail_vars>>

\* the watcher fed line by line (tail_log_file's calls of process_log_line)
Next == \E line \in Lines : ProcessLogLine(line)

Spec == Init /\ [][Next]_vars

\* the alert gate called on its own
NextGate ==
    \/ \E alert_type \in AlertTypes : CanSendAlert(alert_type)
    \/ \E alert_type \in AlertTypes : SendSlackAlert(alert_type)
    \/ \E flag \in BOOLEAN : SetMaintenanceMode(flag)

SpecGate == Init /\ [][NextGate]_vars

\* the statuses around the two ends of the 5xx range
StatusSamples == {200, 499, 500, 599, 600}

\* a record of pool a with the given status
RecordWithStatus(status) == [ParseTable[LineOkA][1] EXCEPT !.status = status]

RECURSIVE SeqsUpTo(_, _)
SeqsUpTo(S, n) ==
    IF n = 0 THEN {<<>>}
    ELSE LET shorter == SeqsUpTo(S, n - 1)
         IN  shorter \cup {Append(q, x) : q \in shorter, x \in S}

\* a watcher whose window holds any records of the sampled statuses
InitRate ==
    /\ slack_webhook_url = WebhookUrl
    /\ maintenance_mode = FALSE
    /\ last_seen_pool = None
    /\ request_window \in SeqsUpTo({RecordWithStatus(s) : s \in StatusSamples},
                                   window_size)
    /\ last_alert_time = <<>>
    /\ out = NoCall
    /\ fed = request_window
    /\ skipped = FALSE
    /\ gap = FALSE
    /\ passed = <<>>
    /\ config = DefaultConfig
    /\ max_lines = MaxLines
    /\ TailOff

NextRate == CalculateErrorRate

SpecRate == InitRate /\ [][NextRate]_vars

-----------------------------------------------------------------------------
(* Runs that start from a watcher that was fed a number of lines of pool a  *)
(* while no alert went out (no webhook, maintenance mode, or every alert    *)
(* refused by the gate).                                                    *)

RecordOkA == ParseTable[LineOkA][1]

RecordErrA == ParseTable[LineErrA][1]

RecordOkB == ParseTable[LineOkB][1]

RECURSIVE Repeat(_, _)
Repeat(x, n) == IF n = 0 THEN <<>> ELSE <<x>> \o Repeat(x, n - 1)

\* the records of e lines of status 503 followed by n - e lines of status 200
ErrorsThenOks(e, n) == Repeat(RecordErrA, e) \o Repeat(RecordOkA, n - e)

\* the watcher after these lines, of a given configuration
InitAfter(cfg, lengths, errors, limit) ==
    /\ slack_webhook_url \in {"", WebhookUrl}
    /\ maintenance_mode \in BOOLEAN
    /\ \E n \in lengths : \E e \in errors :
        /\ e <= n
        /\ fed = ErrorsThenOks(e, n)
        /\ request_window = fed
        /\ last_seen_pool = IF n = 0 THEN None ELSE Some(pool_a)
    /\ last_alert_time = <<>>
    /\ out = NoCall
    /\ skipped = FALSE
    /\ gap = FALSE
    /\ passed = <<>>
    /\ config = cfg
    /\ max_lines = limit
    /\ TailOff

\* WINDOW_SIZE = 20 and ERROR_RATE_THRESHOLD = 55: 11 errors in 20 lines are
\* 55 percent exactly
RoundingWindow == 20

RoundingThreshold == 55

RoundingConfig ==
    [window_size |-> RoundingWindow, error_rate_threshold |-> RoundingThreshold]

\* a window of 18 or 19 records, 9 to 11 of them errors
InitRounding ==
    InitAfter(RoundingConfig, {RoundingWindow - 2, RoundingWindow - 1},
              9 .. 11, RoundingWindow)

SpecRounding == InitRounding /\ [][Next]_vars

\* WINDOW_SIZE = 200 and ERROR_RATE_THRESHOLD = 2: 3 errors in 100 lines
HalfFullWindow == 200

HalfFullThreshold == 2

HalfFullErrors == 3

HalfFullLines == HalfFullWindow \div 2

HalfFullConfig ==
    [window_size |-> HalfFullWindow, error_rate_threshold |-> HalfFullThreshold]

\* a window of 98 or 99 records, at most 3 of them errors
InitHalfFull ==
    InitAfter(HalfFullConfig, (HalfFullLines - 2) .. (HalfFullLines - 1),
              0 .. HalfFullErrors, HalfFullLines)

SpecHalfFull == InitHalfFull /\ [][Next]_vars

-----------------------------------------------------------------------------
(* tail_log_file and the log writer (nginx), which run concurrently.       *)

Newline == <<"\n">>

\* the number of lines the writer writes in a run
MaxWrites == 3

\* a line that is in the file before the watcher starts
History == LineOkB \o Newline

\* the watcher fields that none of the tail steps but process_log_line touches
watcher_vars ==
    <<slack_webhook_url, maintenance_mode, last_seen_pool, request_window,
      last_alert_time, fed, skipped, gap, passed, config, max_lines>>

\* run(): the watcher starts while the file is missing, empty or holds history
InitTail ==
    /\ slack_webhook_url \in {"", WebhookUrl}
    /\ maintenance_mode \in BOOLEAN
    /\ last_seen_pool = None
    /\ request_window = <<>>
    /\ last_alert_time = <<>>
    /\ out = NoCall
    /\ fed = <<>>
    /\ skipped = FALSE
    /\ gap = FALSE
    /\ passed = <<>>
    /\ config = DefaultConfig
    /\ max_lines = MaxLines
    /\ log_file \in {None, Some(<<>>), Some(History)}
    /\ file_pos = 0
    /\ tail_pc = "wait"
    /\ pending = <<>>
    /\ handed = <<>>
    /\ source = <<>>

\* the text of the file, empty while it does not exist
Content == IF log_file = None THEN <<>> ELSE log_file[1]

\* the file object is open
IsOpen == tail_pc \in {"opened", "loop"}

\* the writer appends text to the file, which it creates when it is missing
Appended(text) == Some(Content \o text)

\* the number of lines the writer has begun, those before the watcher started
\* included
LinesBegun ==
    Cardinality({i \in 1 .. Len(Content) : Content[i] = Newline[1]})
        + (IF pending = <<>> THEN 0 ELSE 1)

\* the writer appends a line in one write
WriteLine(line) ==
    /\ pending = <<>>
    /\ LinesBegun < MaxWrites
    /\ log_file' = Appended(line \o Newline)
    /\ source' = IF IsOpen THEN Append(source, line) ELSE source
    /\ UNCHANGED <<watcher_vars, out, file_pos, tail_pc, pending, handed>>

\* the writer appends the first k characters of a line
WritePart(line, k) ==
    /\ pending = <<>>
    /\ LinesBegun < MaxWrites
    /\ log_file' = Appended(SubSeq(line, 1, k))
    /\ pending' = SubSeq(line, k + 1, Len(line)) \o Newline
    /\ source' = IF IsOpen THEN Append(source, line) ELSE source
    /\ UNCHANGED <<watcher_vars, out, file_pos, tail_pc, handed>>

\* the writer appends the rest of the line
WriteRest ==
    /\ pending # <<>>
    /\ log_file' = Appended(pending)
    /\ pending' = <<>>
    /\ UNCHANGED <<watcher_vars, out, file_pos, tail_pc, handed, source>>

\* while not os.path.exists(self.log_file): time.sleep(5)
WaitForFile ==
    /\ tail_pc = "wait"
    /\ log_file = None
    /\ out' = [NoCall EXCEPT !.op = "sleep"]
    /\ UNCHANGED <<watcher_vars, tail_vars>>

\* open(self.log_file, 'r')
OpenFile ==
    /\ tail_pc = "wait"
    /\ log_file # None
    /\ tail_pc' = "opened"
    /\ file_pos' = 0
    /\ UNCHANGED <<watcher_vars, out, log_file, pending, handed, source>>

\* file.seek(0, 2)
SeekEnd ==
    /\ tail_pc = "opened"
    /\ file_pos' = Len(Content)
    /\ tail_pc' = "loop"
    /\ UNCHANGED <<watcher_vars, out, log_file, pending, handed, source>>

\* the length of what file.readline() returns: up to and with the next
\* newline, or all that is left when there is none
RECURSIVE LineLength(_)
LineLength(text) ==
    IF text = <<>> THEN 0
    ELSE IF text[1] = Newline[1] THEN 1
    ELSE 1 + LineLength(Tail(text))

\* file.readline() at the read position
readline == 
    LET rest == SubSeq(Content, file_pos + 1, Len(Content))
    IN  SubSeq(rest, 1, LineLength(rest))

\* one round of the while True loop
TailLoop ==
    /\ tail_pc = "loop"
    /\ LET line == readline
       IN  IF line # <<>>
           THEN /\ file_pos' = file_pos + Len(line)
                /\ handed' = Append(handed, Strip(line))
                /\ CallProcessLogLine(Strip(line))
                /\ UNCHANGED <<log_file, tail_pc, pending, source>>
           ELSE /\ out' = [NoCall EXCEPT !.op = "sleep"]
                /\ UNCHANGED <<watcher_vars, tail_vars>>

NextTail ==
    \/ \E line \in TailLines : WriteLine(line)
    \/ \E line \in TailLines : \E k \in CutPoints(line) : WritePart(line, k)
    \/ WriteRest
    \/ WaitForFile
    \/ OpenFile
    \/ SeekEnd
    \/ TailLoop

SpecTail == InitTail /\ [][NextTail]_vars

-----------------------------------------------------------------------------
(* detect_failover called on its own.                                      *)

\* one call of detect_failover(current_pool)
DetectFailover(current_pool) ==
    /\ \E r \in detect_failover(Self, current_pool) :
        /\ SetSelf(r.self)
        /\ out' = [NoCall EXCEPT !.op = "detect_failover", !.line = current_pool,
                                 !.event = r.event, !.traces = r.traces,
                                 !.rets = r.rets]
        /\ passed' = NotePasses(passed, r.traces)
    /\ UNCHANGED <<fed, skipped, gap, config, max_lines, tail_vars>>

NextDetector == \E current_pool \in {pool_a, pool_b, unknown} : DetectFailover(current_pool)

SpecDetector == Init /\ [][NextDetector]_vars

-----------------------------------------------------------------------------
(* Properties.                                                             *)

Min(a, b) == IF a <= b THEN a ELSE b

\* the number of records of a sequence with a status from 500 to 599
Count5xx(records) ==
    Cardinality({i \in 1 .. Len(records) :
                    records[i].status >= 500 /\ records[i].status <= 599})

\* the most recent min(window_size, n) of the n attributed records fed so far
MostRecent ==
    LET k == Min(config.window_size, Len(fed))
    IN  SubSeq(fed, Len(fed) - k + 1, Len(fed))

\* the ledger entry of an alert type, None when there is none
Entry(ledger, alert_type) ==
    IF alert_type \in DOMAIN ledger THEN Some(ledger[alert_type]) ELSE None

\* the calls of send_slack_alert of the last step that reached requests.post
PostedTraces(o) == {i \in 1 .. Len(o.traces) : o.traces[i].result \in Posted}

\* the last step let an alert through the gate
GatePassed(o) ==
    \/ o.op = "can_send_alert" /\ o.ret = Some(TRUE)
    \/ o.op = "send_slack_alert" /\ PostedTraces(o) # {}

\* the lines of the model with a status or request_time token that is not a number
BadNumberLines ==
    {line \in Lines :
        LET log_data == findall(line, 1)
            status == dict_get(log_data, status_key, None)
            request_time == dict_get(log_data, request_time_key, None)
        IN  \/ status # None /\ py_int(status[1]) = None
            \/ request_time # None /\ py_float(request_time[1]) = None}

\* the record the line would give if bad numbers were read as 0
CoercedTable == [line \in Lines |-> parse_log_line_coercing(line)[1]]

\* C1: after any sequence of lines passed to process_log_line the window holds
\* at most window_size records, and exactly min(window_size, n) of them, n being
\* the number of lines so far that parsed with a pool other than 'unknown'.
C1_WindowLength ==
    /\ Len(request_window) <= window_size
    /\ Len(request_window) = Min(window_size, Len(fed))

\* C1 witness: more attributed lines than the window holds were fed
C1_Witness ==
    /\ out.op = "process_log_line"
    /\ Len(fed) = window_size + 1
    /\ Len(request_window) = window_size

\* C2: a call of process_log_line produces a failover event from X to Y exactly
\* when the line is attributed to a pool Y that differs from X, the pool of the
\* latest attributed line before it; the first attributed line produces none; a
\* line that is not attributed produces none and keeps last_seen_pool; after an
\* attributed line last_seen_pool is Y, whatever became of the alert.
C2_FailoverEvents ==
    [][out'.op = "process_log_line" =>
        IF Attributed(out'.line)
        THEN LET Y == call_parse_log_line(out'.line)[1].pool
             IN  /\ out'.event =
                        IF fed # <<>> /\ fed[Len(fed)].pool # Y
                        THEN Some(<<fed[Len(fed)].pool, Y>>)
                        ELSE None
                 /\ last_seen_pool' = Some(Y)
        ELSE /\ out'.event = None
             /\ last_seen_pool' = last_seen_pool]_vars

\* C2 witness: a, skipped line, b: the event a -> b is produced although the
\* failover alert is held back by the cooldown, and b is the reference pool
C2_Witness ==
    /\ out.op = "process_log_line"
    /\ gap
    /\ out.event = Some(<<pool_a, pool_b>>)
    /\ Len(out.traces) = 1
    /\ out.traces[1].type = "failover"
    /\ out.traces[1].result = "cooldown"
    /\ last_seen_pool = Some(pool_b)

\* C3: for every alert type, two successive alerts of the type that pass the
\* gate have clock readings at least alert_cooldown_sec apart.
C3_CooldownGap ==
    \A alert_type \in DOMAIN passed :
        Len(passed[alert_type]) = 2 =>
            passed[alert_type][2] - passed[alert_type][1] >= alert_cooldown_sec

\* C3 witness: two alerts of one type passed, and one of another type as well
C3_Witness ==
    /\ GatePassed(out)
    /\ Len(passed[out.type]) = 2
    /\ \E other \in DOMAIN passed : other # out.type

\* C4 (as claimed): with the webhook configured and maintenance off, an alert of
\* a type without ledger entry is allowed whatever the clock reading t; a
\* following one of the type at t + alert_cooldown_sec - 1 is refused and one
\* at t + alert_cooldown_sec is allowed.
C4_FirstAlertAndBoundary ==
    [][(/\ out'.op = "send_slack_alert"
        /\ slack_webhook_url # ""
        /\ ~maintenance_mode) =>
        LET before == Entry(last_alert_time, out'.type)
            allowed == PostedTraces(out') # {}
        IN  /\ before = None => allowed
            /\ before # None /\ out'.now[1] = before[1] + alert_cooldown_sec - 1
                   => ~allowed
            /\ before # None /\ out'.now[1] = before[1] + alert_cooldown_sec
                   => allowed]_vars

\* the ledger holds, for each alert type, the reading of the last alert of the
\* type that passed the gate, and nothing else
LedgerIsLastAllowed ==
    /\ DOMAIN last_alert_time = DOMAIN passed
    /\ \A alert_type \in DOMAIN passed :
           last_alert_time[alert_type] = passed[alert_type][Len(passed[alert_type])]

\* C5: while maintenance mode is set or no webhook is configured,
\* send_slack_alert posts nothing, returns false and leaves last_alert_time as
\* it is; so the ledger always holds the readings of the alerts that were
\* allowed, also after maintenance mode was switched off.
C5_SuppressionKeepsLedger ==
    [][/\ (/\ out'.op = "send_slack_alert"
           /\ maintenance_mode \/ slack_webhook_url = "") =>
               /\ out'.ret = Some(FALSE)
               /\ PostedTraces(out') = {}
               /\ last_alert_time' = last_alert_time
       /\ LedgerIsLastAllowed']_vars

\* C5 witness: an alert suppressed by maintenance mode of a type whose cooldown
\* was started by an earlier alert
C5_Witness ==
    /\ out.op = "send_slack_alert"
    /\ slack_webhook_url # ""
    /\ out.traces[1].result = "maintenance"
    /\ out.type \in DOMAIN last_alert_time

\* C6: a call of the gate for one alert type leaves the ledger entries of the
\* other types as they are, and whether it lets the alert through depends on
\* the entry of its own type only.
C6_IndependentCooldowns ==
    [][out'.op \in {"can_send_alert", "send_slack_alert"} =>
        /\ \A other \in AlertTypes \ {out'.type} :
               Entry(last_alert_time', other) = Entry(last_alert_time, other)
        /\ out'.now # None =>
               (GatePassed(out') <=>
                    out'.now[1] - ledger_get(last_alert_time, out'.type)
                        >= alert_cooldown_sec)]_vars

\* C6 witness: an error_rate alert goes out at a reading at which a failover
\* alert is in cooldown
C6_Witness ==
    /\ out.op = "send_slack_alert"
    /\ out.type = "error_rate"
    /\ PostedTraces(out) # {}
    /\ "failover" \in DOMAIN last_alert_time
    /\ out.now[1] - last_alert_time["failover"] < alert_cooldown_sec
    /\ out.now[1] >= last_alert_time["failover"]

\* C7 (as claimed): a line with a status or request_time that is not a number
\* and a known pool is appended to the window as a record with 0 in that field,
\* and its pool becomes last_seen_pool.
C7_BadNumberCoerced ==
    [][(/\ out'.op = "process_log_line"
        /\ out'.line \in BadNumberLines
        /\ CoercedTable[out'.line].pool # unknown) =>
            /\ request_window' =
                   deque_append(request_window, window_size, CoercedTable[out'.line])
            /\ last_seen_pool' = Some(CoercedTable[out'.line].pool)]_vars

\* C7 (amended): a line with a status or request_time that is not a number is
\* discarded: the window, last_seen_pool and the ledger stay as they are, and no
\* event, rate or alert comes of it.
C7_BadNumberDiscarded ==
    [][(/\ out'.op = "process_log_line"
        /\ out'.line \in BadNumberLines) =>
            /\ UNCHANGED <<request_window, last_seen_pool, last_alert_time>>
            /\ out'.event = None
            /\ out'.rate = None
            /\ out'.traces = <<>>]_vars

\* C7 witness: the bad status line of pool a was processed by a watcher that
\* saw pool b last
C7_Witness ==
    /\ out.op = "process_log_line"
    /\ out.line = LineBadStatus
    /\ last_seen_pool = Some(pool_b)
    /\ request_window # <<>>

\* C8: a line that fails to parse or whose pool is 'unknown' leaves the window,
\* last_seen_pool and the ledger as they are and sends no alert.
C8_SkippedLineNoEffect ==
    [][(/\ out'.op = "process_log_line"
        /\ ~Attributed(out'.line)) =>
            /\ UNCHANGED <<request_window, last_seen_pool, last_alert_time>>
            /\ out'.traces = <<>>]_vars

\* C8 witness: a line without pool token was processed by a watcher that has
\* seen a pool
C8_Witness ==
    /\ out.op = "process_log_line"
    /\ out.line = LineNoPool
    /\ last_seen_pool # None
    /\ request_window # <<>>

\* C9: calculate_error_rate gives exactly 0 on an empty window and 100 * E / N
\* otherwise, N being the length of the window and E the number of its records
\* with 500 <= status < 600.
C9_ErrorRate ==
    out.op = "calculate_error_rate" =>
        LET rate == out.rate[1]
            N == Len(request_window)
        IN  /\ rate.den > 0
            /\ IF N = 0 THEN rate.num = 0
               ELSE rate.num * N = 100 * Count5xx(request_window) * rate.den

\* C9 witness: the window holds the statuses 499, 599 and 600, one of three counts
C9_Witness ==
    /\ out.op = "calculate_error_rate"
    /\ Len(request_window) = 3
    /\ {request_window[i].status : i \in 1 .. 3} = {499, 599, 600}
    /\ out.rate[1].num * 3 = 100 * out.rate[1].den

\* C10: the window is the most recent min(window_size, n) attributed records in
\* the order of arrival, and the rate computed after an append is the rate of
\* these records: an evicted record does not count.
C10_FifoEviction ==
    /\ request_window = MostRecent
    /\ out.op = "process_log_line" /\ out.rate # None =>
           out.rate[1].num * Len(MostRecent)
               = 100 * Count5xx(MostRecent) * out.rate[1].den

\* C10 witness: the oldest record was a 5xx, it was evicted, and the rate is 0
C10_Witness ==
    /\ out.op = "process_log_line"
    /\ Len(fed) > window_size
    /\ fed[1].status = 503
    /\ out.rate = Some([num |-> 0, den |-> window_size])

\* the last call raised a candidate error_rate alert
CandidateRaised(o) == \E i \in 1 .. Len(o.traces) : o.traces[i].type = "error_rate"

\* C11 (as claimed): a call of process_log_line raises a candidate error_rate
\* alert if and only if the line is appended, the error rate of the window is
\* strictly greater than the threshold and the window is at least half full;
\* a rate equal to the threshold raises none.
C11_CandidateIffAboveThreshold ==
    [][out'.op = "process_log_line" =>
        (CandidateRaised(out') <=>
            /\ Attributed(out'.line)
            /\ 100 * Count5xx(request_window')
                   > config.error_rate_threshold * Len(request_window')
            /\ 2 * Len(request_window') >= config.window_size)]_vars

\* the last call dispatched an alert of this type to the notifier
Dispatched(o, alert_type) ==
    \E i \in 1 .. Len(o.traces) :
        /\ o.traces[i].type = alert_type
        /\ o.traces[i].result \in Posted

\* C12 (as claimed): feeding 100 attributed lines, 3 of them of status 503, to
\* a window of size 200 with threshold 2 produces no error_rate alert at any
\* point of those 100 lines.
C12_NoAlertWithin100Lines ==
    [][(/\ config = HalfFullConfig
        /\ out'.op = "process_log_line"
        /\ Len(fed') <= HalfFullLines
        /\ Count5xx(fed') <= HalfFullErrors)
       => ~Dispatched(out', "error_rate")]_vars

\* C12 (amended): with window size 200 and threshold 2, none of the first 99
\* attributed lines raises an error_rate candidate; the 100th line makes the
\* window exactly half full, and it raises a candidate exactly when the window
\* then holds 3 errors (3 percent).
C12_AlertAtHalfFull ==
    [][(/\ config = HalfFullConfig
        /\ out'.op = "process_log_line"
        /\ Attributed(out'.line)
        /\ Len(fed') <= HalfFullLines
        /\ Count5xx(fed') <= HalfFullErrors)
       => (CandidateRaised(out') <=>
                /\ Len(fed') = HalfFullLines
                /\ Count5xx(fed') = HalfFullErrors)]_vars

C12_Witness ==
    /\ config = HalfFullConfig
    /\ Len(fed) = HalfFullLines
    /\ Count5xx(fed) = HalfFullErrors
    /\ out.op = "process_log_line"
    /\ Dispatched(out, "error_rate")

\* the call of send_slack_alert of this type in the last step
TraceOf(o, alert_type) ==
    o.traces[CHOOSE i \in 1 .. Len(o.traces) : o.traces[i].type = alert_type]

\* C13 (as claimed): with the webhook configured and maintenance off, a line on
\* which the error-rate condition holds dispatches an error_rate alert exactly
\* when no earlier error_rate alert is in cooldown: the first line of a run
\* dispatches, the later lines of the run within the cooldown do not.
C13_OneAlertPerRun ==
    [][(/\ out'.op = "process_log_line"
        /\ CandidateRaised(out')
        /\ slack_webhook_url # ""
        /\ ~maintenance_mode)
       => (Dispatched(out', "error_rate") <=>
            \/ "error_rate" \notin DOMAIN last_alert_time
            \/ TraceOf(out', "error_rate").now[1] - last_alert_time["error_rate"]
                   >= alert_cooldown_sec)]_vars

\* C14 (as claimed): after lines of pools a, a, a, b, all of status 200, with
\* the webhook configured and maintenance off, exactly one failover alert and
\* no error_rate alert has been dispatched.
C14_OneFailoverAlert ==
    (/\ fed = <<RecordOkA, RecordOkA, RecordOkA, RecordOkB>>
     /\ slack_webhook_url # ""
     /\ ~maintenance_mode)
    => /\ DOMAIN passed = {"failover"}
       /\ Len(passed["failover"]) = 1

\* the last call made a delivery attempt that failed
DeliveryFailed(o) ==
    \E i \in 1 .. Len(o.traces) : o.traces[i].result \in Failed

\* C15: a failed delivery (exception, timeout or non-200 response) makes
\* send_slack_alert return False and goes no further: the line is processed to
\* its end (the error rate is computed), request_window and last_seen_pool are
\* what the line alone determines, as after a successful delivery, and each
\* alert type had at most one delivery attempt in the call.
C15_NotifierFailure ==
    [][(out'.op = "process_log_line" /\ DeliveryFailed(out'))
       => /\ Attributed(out'.line)
          /\ request_window' =
                deque_append(request_window, config.window_size,
                             call_parse_log_line(out'.line)[1])
          /\ last_seen_pool' = Some(call_parse_log_line(out'.line)[1].pool)
          /\ out'.rate # None
          /\ \A t \in AlertTypes :
                Cardinality({i \in PostedTraces(out') : out'.traces[i].type = t}) <= 1
          /\ \A i \in 1 .. Len(out'.traces) :
                out'.traces[i].result \in Failed => out'.rets[i] = FALSE]_vars

\* a failover alert whose delivery failed, on a line that was appended
C15_Witness ==
    /\ out.op = "process_log_line"
    /\ \E i \in 1 .. Len(out.traces) :
        /\ out.traces[i].type = "failover"
        /\ out.traces[i].result = "exception"
        /\ out.rets[i] = FALSE
    /\ last_seen_pool = Some(pool_b)
    /\ request_window # <<>>
    /\ request_window[Len(request_window)].pool = pool_b

\* p is a prefix of q
IsPrefix(p, q) == Len(p) <= Len(q) /\ p = SubSeq(q, 1, Len(p))

\* C16 (as claimed): the texts handed to process_log_line are, in order and
\* each at most once, the lines appended after the watcher opened the file;
\* nothing that was in the file before is handed over.
C16_HandedInSourceOrder == IsPrefix(handed, source)

\* C20 (as claimed): every text handed to process_log_line is a complete line
\* of the writer, also when the writer appends a line in several writes.
C20_OnlyCompleteLines ==
    \A i \in 1 .. Len(handed) : handed[i] \in TailLines \cup {LineOkB}

\* C17 (as claimed): detect_failover called with the pool 'unknown' while
\* last_seen_pool holds a known pool emits no failover event, sends no alert
\* and leaves last_seen_pool unchanged.
C17_DetectorIgnoresUnknown ==
    [][(/\ out'.op = "detect_failover"
        /\ out'.line = unknown
        /\ Truthy(last_seen_pool)
        /\ last_seen_pool[1] # unknown)
       => /\ out'.event = None
          /\ out'.traces = <<>>
          /\ last_seen_pool' = last_seen_pool]_vars

\* C18: the ledger entry of an alert type changes in a step exactly when an
\* alert of that type passes the gate in that step, and it is then the clock
\* reading of that call, also when the delivery that follows fails; a refused
\* or suppressed attempt leaves every entry as it was.
C18_LedgerMovesOnPass ==
    [][\A t \in AlertTypes :
        /\ (Entry(last_alert_time', t) # Entry(last_alert_time, t))
                <=> (GatePassed(out') /\ out'.type = t)
        /\ (GatePassed(out') /\ out'.type = t)
                => Entry(last_alert_time', t) = out'.now]_vars

\* an alert that passed the gate and whose delivery failed
C18_Witness ==
    /\ out.op = "send_slack_alert"
    /\ out.type = "failover"
    /\ out.ret = Some(FALSE)
    /\ out.traces[1].result = "exception"
    /\ Entry(last_alert_time, "failover") = out.now

\* C19: in every state reached by feeding lines, last_seen_pool is unset or a
\* pool other than 'unknown', no record of the window has the pool 'unknown',
\* and the window and last_seen_pool are what the attributed lines fed so far
\* determine: the most recent records and the pool of the last one, whatever
\* the maintenance flag, the webhook, the ledger and the deliveries were.
C19_StateFromLinesAlone ==
    /\ last_seen_pool = None \/ last_seen_pool[1] # unknown
    /\ \A i \in 1 .. Len(request_window) : request_window[i].pool # unknown
    /\ request_window = MostRecent
    /\ last_seen_pool = IF fed = <<>> THEN None ELSE Some(fed[Len(fed)].pool)

\* a line of pool 'unknown' fed in maintenance mode after a change of pool
C19_Witness ==
    /\ maintenance_mode
    /\ out.op = "process_log_line"
    /\ out.line = LineUnknownPool
    /\ last_seen_pool = Some(pool_b)
    /\ Len(request_window) >= 2
    /\ request_window[Len(request_window) - 1].pool = pool_a

====
